---- MODULE Spec2Model ----
(***************************************************************************)
(* Model of the translator bot worker (src/backend/bot_worker.py): the     *)
(* per-speaker reader loop that segments inbound audio                      *)
(* (RoomBotHandle._read_track_loop) and the recognition / translation /     *)
(* synthesis fan-out of TranslatorAgent (handle_speech_chunk and            *)
(* _translate_and_play_for_target).                                         *)
(*                                                                         *)
(* PCM data is kept run-length encoded: a sequence of runs [n, amp], n      *)
(* bytes of 16-bit samples that all have amplitude amp.  Time is in         *)
(* milliseconds; of the clock only time.time() - last_voice_time is kept.   *)
(***************************************************************************)
EXTENDS Integers, Sequences, FiniteSets, TLC

\* ------------------------------------------------------------------ bounds
MaxFrames == 10
MaxChunks == 2
MaxSegChunks == 3
MaxGovChunks == 4
MaxPrefCalls == 2
MaxIngestChunks == 3
MaxIngestFrames == 4
MaxRequests == 5
MaxRoomRequests == 4
MaxStopChunks == 2
MaxFanChunks == 1
MaxHandleChunks == 3
MaxPlayChunks == 2
MaxBufChunks == 3
MaxBufFrames == 6
MaxRateChunks == 3
MaxRateFrames == 4
MaxRawBytes == 5

\* ------------------------------------------------------- program constants
SILENCE_THRESHOLD == 100
SILENCE_MS_TO_END == 500
MIN_SPEECH_BYTES == (16000 * 2) \div 5
MAX_CONCURRENT_TTS == 3
sample_rate == 48000
min_speech_bytes == (sample_rate * 2 * 5) \div 10
MAX_ROOM_CAPACITY == 4

\* ------------------------------------------------------------------ inputs
Users == {"u1", "u2", "u3"}
DefaultLanguage == "hi-IN"
NoVoice == "None"

\* 50 ms and 500 ms of 48 kHz mono PCM16
FrameBytes == 50 * 96
BigFrameBytes == 500 * 96
StallMs == SILENCE_MS_TO_END + 100
\* frames: silence, a voice just above the threshold, a loud voice
Silent50 == [n |-> FrameBytes, amp |-> 0]
Soft50 == [n |-> FrameBytes, amp |-> 110]
Loud50 == [n |-> FrameBytes, amp |-> 300]
ClockCap == SILENCE_MS_TO_END + 1

VARIABLES
    reader,       \* per speaker: "none" | "running"
    buffer,       \* per speaker: the bytearray of _read_track_loop, as runs
    sinceVoice,   \* per speaker: time.time() - last_voice_time, in ms, capped
    nframes,      \* frames ingested so far (bounds the run)
    chunks,       \* every snapshot taken by a reader, with its dispatch task;
                  \* prefsAt records user_prefs as handle_speech_chunk was entered
    tasks,        \* the _translate_and_play_for_target tasks: records keyed by
                  \* chunk and target, ord their place in the chunk's task list
    user_prefs,   \* TranslatorAgent.user_prefs, in dict (insertion) order
    sema,         \* free slots of TranslatorAgent._tts_sema
    nprefs,       \* set_user_pref calls so far (bounds the run)
    stream,       \* per speaker: every byte its reader ingested so far, as runs
    rooms,        \* main.rooms: room code -> [members, bots]
    _bots,        \* bot_worker._bots: room code -> index of its RoomBotHandle
    handles,      \* every RoomBotHandle made so far, with its _starter task
    recs,         \* every _reconcile_bots task scheduled so far
    nreqs,        \* HTTP requests served so far (bounds the run)
    raw,          \* _bytes_to_audio_frames_async: the decoded PCM, one number a byte
    bytes_per_chunk, \* its frame size in bytes
    idx,          \* its read position in raw
    frames        \* the frames it has yielded so far

\* the state of one run of the frame generator, which no action of the
\* readers, the agent or the room management touches
frameVars == <<raw, bytes_per_chunk, idx, frames>>

\* the state of room management and of the bots' lifecycle
lifeVars == <<rooms, _bots, handles, recs, nreqs, frameVars>>

\* the state of one bot's readers and of its agent
pipeVars == <<reader, buffer, sinceVoice, nframes, chunks, tasks, user_prefs, sema, nprefs,
              stream, frameVars>>

vars == <<reader, buffer, sinceVoice, nframes, chunks, tasks, user_prefs, sema, nprefs,
          stream, lifeVars>>

Min(a, b) == IF a < b THEN a ELSE b

\* ---------------------------------------------------------------- PCM runs
RECURSIVE BufLen(_)
BufLen(buf) == IF buf = <<>> THEN 0 ELSE buf[1].n + BufLen(Tail(buf))

\* buffer.extend(data)
Extend(buf, data) ==
    IF data.n = 0 THEN buf
    ELSE IF buf # <<>> /\ buf[Len(buf)].amp = data.amp
         THEN [buf EXCEPT ![Len(buf)].n = @ + data.n]
         ELSE Append(buf, data)

\* sum of s*s over the samples of the last w bytes of buf
RECURSIVE TailSquares(_, _)
TailSquares(buf, w) ==
    IF w <= 0 \/ buf = <<>> THEN 0
    ELSE LET last == buf[Len(buf)]
             take == Min(last.n, w)
         IN  (take \div 2) * last.amp * last.amp
             + TailSquares(SubSeq(buf, 1, Len(buf) - 1), w - take)

\* int(0.2 * sr) * 2
WindowBytes(sr) == ((2 * sr) \div 10) * 2

\* _rms_of_pcm16(window) > SILENCE_THRESHOLD, for the window buffer[-WindowBytes:]
RmsAboveThreshold(buf, sr) ==
    LET w     == Min(WindowBytes(sr), BufLen(buf))
        count == w \div 2
    IN  /\ count > 0
        /\ TailSquares(buf, w) > SILENCE_THRESHOLD * SILENCE_THRESHOLD * count

\* number of leading bytes of pcm whose samples are above the threshold
LeadVoiced(pcm) ==
    IF pcm # <<>> /\ pcm[1].amp > SILENCE_THRESHOLD THEN pcm[1].n ELSE 0

AllVoiced(pcm) == pcm # <<>> /\ \A i \in 1..Len(pcm) : pcm[i].amp > SILENCE_THRESHOLD

\* ----------------------------------------------------------- frame slicing
FRAME_MS == 20

\* bytes_per_chunk of _bytes_to_audio_frames_async for 16-bit samples:
\* int(sample_rate / 1000.0 * frame_ms) * channels * 2
BytesPerChunk(sr, ch, fms) == ((sr * fms) \div 1000) * ch * 2

\* no generator is running: nothing decoded, the frame size of the calls made
\* by the agent
FrameIdle ==
    /\ raw = <<>>
    /\ bytes_per_chunk = BytesPerChunk(44100, 1, FRAME_MS)
    /\ idx = 0
    /\ frames = <<>>

\* ------------------------------------------------------------------- Init
Init ==
    /\ reader = [s \in Users |-> "none"]
    /\ buffer = [s \in Users |-> <<>>]
    /\ sinceVoice = [s \in Users |-> 0]
    /\ nframes = 0
    /\ chunks = <<>>
    /\ tasks = {}
    /\ user_prefs = <<>>
    /\ sema = MAX_CONCURRENT_TTS
    /\ nprefs = 0
    /\ stream = [s \in Users |-> <<>>]
    /\ rooms = <<>>
    /\ _bots = <<>>
    /\ handles = <<>>
    /\ recs = <<>>
    /\ nreqs = 0
    /\ FrameIdle

\* --------------------------------------------------------- preference store
PrefIndex(prefs, u) ==
    IF \E i \in 1..Len(prefs) : prefs[i].id = u
    THEN CHOOSE i \in 1..Len(prefs) : prefs[i].id = u
    ELSE 0

\* get_default_voice(language)
get_default_voice(language) == <<"default", language>>

\* self.user_prefs.get(speaker_id, {"language": "hi-IN", ...})["language"]
SpeakerLang(prefs, u) ==
    IF PrefIndex(prefs, u) = 0 THEN DefaultLanguage ELSE prefs[PrefIndex(prefs, u)].language

\* ---------------------------------------------------------- the reader loop
\* _on_track_subscribed -> _read_track_loop up to its first frame
TrackSubscribed(s) ==
    /\ reader[s] = "none"
    /\ reader' = [reader EXCEPT ![s] = "running"]
    /\ buffer' = [buffer EXCEPT ![s] = <<>>]
    /\ sinceVoice' = [sinceVoice EXCEPT ![s] = 0]
    /\ UNCHANGED <<nframes, chunks, tasks, user_prefs, sema, nprefs, stream, lifeVars>>

\* mutant: the silence hold compared in the wrong unit (any silence ends the turn)
EndOfTurn_NoHold(len, silentFor) ==
    \/ len >= min_speech_bytes
    \/ (silentFor > 0 /\ len > 0)

\* mutant: the size trigger is strict
EndOfTurn_StrictSize(len, silentFor) ==
    \/ len > min_speech_bytes
    \/ (silentFor > SILENCE_MS_TO_END /\ len > 0)

\* mutant: the silence trigger does not look at the buffer's length
EndOfTurn_EmptyFlush(len, silentFor) ==
    \/ len >= min_speech_bytes
    \/ silentFor > SILENCE_MS_TO_END

\* the end-of-turn check of _read_track_loop
EndOfTurn(len, silentFor) ==
    \/ len >= min_speech_bytes
    \/ (silentFor > SILENCE_MS_TO_END /\ len > 0)

\* mutant: the reader's MIN_SPEECH_BYTES check is missing
SnapshotDispatched_NoCheck(len) == TRUE

\* whether the reader hands a snapshot to _process_speech_chunk
SnapshotDispatched(len) == ~(len < MIN_SPEECH_BYTES)

NewChunk(s, pcm, sr, silentFor) ==
    [speaker |-> s, pcm |-> pcm, bytes |-> BufLen(pcm), rate |-> sr,
     trigger |-> IF BufLen(pcm) >= min_speech_bytes THEN "size" ELSE "silence",
     silentFor |-> silentFor,
     pc |-> IF SnapshotDispatched(BufLen(pcm)) THEN "created" ELSE "discarded",
     srcLang |-> "", recognized |-> "none", stt |-> 0,
     prefsAt |-> <<>>]

\* mutant: the snapshot is taken without clearing the buffer
ReadFrame_NoClear(s, data, rate, gap) ==
    /\ reader[s] = "running"
    /\ nframes < MaxFrames
    /\ LET sr        == IF rate = 0 THEN sample_rate ELSE rate
           buf       == Extend(buffer[s], data)
           elapsed   == Min(sinceVoice[s] + gap, ClockCap)
           silentFor == IF RmsAboveThreshold(buf, sr) THEN 0 ELSE elapsed
       IN  /\ sinceVoice' = [sinceVoice EXCEPT ![s] = silentFor]
           /\ buffer' = [buffer EXCEPT ![s] = buf]
           /\ IF EndOfTurn(BufLen(buf), silentFor)
              THEN chunks' = Append(chunks, NewChunk(s, buf, sr, silentFor))
              ELSE UNCHANGED chunks
    /\ nframes' = nframes + 1
    /\ stream' = [stream EXCEPT ![s] = Extend(@, data)]
    /\ UNCHANGED <<reader, tasks, user_prefs, sema, nprefs, lifeVars>>

\* mutant: the frame's sample rate is used as it comes, also when it is 0
ReadFrame_RawRate(s, data, rate, gap) ==
    /\ reader[s] = "running"
    /\ nframes < MaxFrames
    /\ LET sr        == rate
           buf       == Extend(buffer[s], data)
           elapsed   == Min(sinceVoice[s] + gap, ClockCap)
           silentFor == IF RmsAboveThreshold(buf, sr) THEN 0 ELSE elapsed
       IN  /\ sinceVoice' = [sinceVoice EXCEPT ![s] = silentFor]
           /\ IF EndOfTurn(BufLen(buf), silentFor)
              THEN /\ buffer' = [buffer EXCEPT ![s] = <<>>]
                   /\ chunks' = Append(chunks, NewChunk(s, buf, sr, silentFor))
              ELSE /\ buffer' = [buffer EXCEPT ![s] = buf]
                   /\ UNCHANGED chunks
    /\ nframes' = nframes + 1
    /\ stream' = [stream EXCEPT ![s] = Extend(@, data)]
    /\ UNCHANGED <<reader, tasks, user_prefs, sema, nprefs, lifeVars>>

\* one iteration of `async for frame_event in stream`: a frame of data.n bytes
\* with sample rate rate (0: unknown) arrives gap ms after the previous one
ReadFrame(s, data, rate, gap) ==
    /\ reader[s] = "running"
    /\ nframes < MaxFrames
    /\ LET sr        == IF rate = 0 THEN sample_rate ELSE rate
           buf       == Extend(buffer[s], data)
           elapsed   == Min(sinceVoice[s] + gap, ClockCap)
           silentFor == IF RmsAboveThreshold(buf, sr) THEN 0 ELSE elapsed
       IN  /\ sinceVoice' = [sinceVoice EXCEPT ![s] = silentFor]
           /\ IF EndOfTurn(BufLen(buf), silentFor)
              THEN /\ buffer' = [buffer EXCEPT ![s] = <<>>]
                   /\ chunks' = Append(chunks, NewChunk(s, buf, sr, silentFor))
              ELSE /\ buffer' = [buffer EXCEPT ![s] = buf]
                   /\ UNCHANGED chunks
    /\ nframes' = nframes + 1
    /\ stream' = [stream EXCEPT ![s] = Extend(@, data)]
    /\ UNCHANGED <<reader, tasks, user_prefs, sema, nprefs, lifeVars>>

\* the `async for` over the stream ends: the participant left or unpublished;
\* the loop returns and the bytes still in its buffer are not snapshotted
StreamEnd(s) ==
    /\ reader[s] = "running"
    /\ reader' = [reader EXCEPT ![s] = "ended"]
    /\ UNCHANGED <<buffer, sinceVoice, nframes, chunks, tasks, user_prefs, sema, nprefs,
                   stream, lifeVars>>

\* mutant: a failure of one stream takes the other readers down with it
ReadFail_StopsAll(s) ==
    /\ reader[s] = "running"
    /\ reader' = [o \in Users |-> IF reader[o] = "running" THEN "failed" ELSE reader[o]]
    /\ UNCHANGED <<buffer, sinceVoice, nframes, chunks, tasks, user_prefs, sema, nprefs,
                   stream, lifeVars>>

\* the stream (or the handling of a frame) raises: the loop's `except
\* Exception` logs it and the reader task of this participant ends
ReadFail(s) ==
    /\ reader[s] = "running"
    /\ reader' = [reader EXCEPT ![s] = "failed"]
    /\ UNCHANGED <<buffer, sinceVoice, nframes, chunks, tasks, user_prefs, sema, nprefs,
                   stream, lifeVars>>

\* ------------------------------------------------- segmenter specification
SegFrames == {Silent50, Soft50, Loud50}
SegGaps == {50, StallMs}

SegNext ==
    \/ TrackSubscribed("u1")
    \/ \E data \in SegFrames, gap \in SegGaps :
          Len(chunks) < MaxSegChunks /\ ReadFrame("u1", data, sample_rate, gap)

SpecSeg == Init /\ [][SegNext]_vars

\* ------------------------------------------------ segmentation properties
Chunk(i) == chunks[i]
ChunkIds == 1..Len(chunks)
Ms(ms) == ms * 96

\* C3 as stated: a speaker whose frames start with 500 ms above the threshold
\* is first flushed when about 900 ms are buffered.
C3_Original ==
    (Len(chunks) >= 1 /\ LeadVoiced(Chunk(1).pcm) >= Ms(500))
        => (Chunk(1).bytes >= Ms(850) /\ Chunk(1).bytes <= Ms(950))

\* C3 (amended): a snapshot that starts with 500 ms of above-threshold audio
\* is cut by the size trigger when 500 ms (min_speech_bytes) are buffered, so
\* it holds the voice alone; a silence-triggered flush is below
\* min_speech_bytes and happens only when more than SILENCE_SECONDS_TO_END
\* passed since the energy window was last above the threshold.
C3_SilenceEndpointing ==
    \A i \in ChunkIds :
        /\ LeadVoiced(Chunk(i).pcm) >= Ms(500)
              => /\ Chunk(i).trigger = "size"
                 /\ Chunk(i).bytes = LeadVoiced(Chunk(i).pcm)
                 /\ Chunk(i).bytes - FrameBytes < min_speech_bytes
        /\ Chunk(i).trigger = "silence"
              => /\ Chunk(i).silentFor > SILENCE_MS_TO_END
                 /\ Chunk(i).bytes < min_speech_bytes

C3_Witness ==
    /\ Len(chunks) >= 1
    /\ LeadVoiced(Chunk(1).pcm) >= Ms(500)
    /\ Chunk(1).bytes = Ms(500)

\* C4 as stated: with continuous above-threshold audio the buffer is not
\* flushed before 1500 ms are buffered.
C4_Original ==
    \A i \in ChunkIds : AllVoiced(Chunk(i).pcm) => Chunk(i).bytes >= Ms(1500)

\* C4 (amended): continuous above-threshold audio is never flushed before
\* min_speech_bytes (500 ms at 48 kHz) are buffered and is flushed
\* unconditionally once they are: no buffer holds min_speech_bytes after an
\* ingest step.
C4_SizeTriggeredFlush ==
    /\ \A i \in ChunkIds :
          AllVoiced(Chunk(i).pcm)
              => Chunk(i).trigger = "size" /\ Chunk(i).bytes >= min_speech_bytes
    /\ \A s \in Users : BufLen(buffer[s]) < min_speech_bytes

C4_Witness ==
    \E i \in ChunkIds : AllVoiced(Chunk(i).pcm) /\ Chunk(i).bytes = Ms(500)

\* C5 as stated: after 300 ms of voiced audio the buffer is never flushed
\* while it holds less than MIN_CHUNK_MS (400 ms).
C5_Original ==
    \A i \in ChunkIds : LeadVoiced(Chunk(i).pcm) >= Ms(300) => Chunk(i).bytes >= Ms(400)

\* C5 (amended): a flush has no minimum duration, only a non-empty buffer;
\* what is never dispatched is a snapshot below MIN_SPEECH_BYTES, which the
\* reader discards, and every larger snapshot is dispatched.
C5_ShortSnapshotsDiscarded ==
    \A i \in ChunkIds :
        /\ Chunk(i).bytes > 0
        /\ Chunk(i).pc = "discarded" <=> Chunk(i).bytes < MIN_SPEECH_BYTES

C5_Witness ==
    /\ \E i \in ChunkIds :
          /\ LeadVoiced(Chunk(i).pcm) >= Ms(300)
          /\ Chunk(i).bytes < Ms(400)
          /\ Chunk(i).pc = "created"
    /\ \E i \in ChunkIds : Chunk(i).pc = "discarded"

\* ------------------------------------------------ TranslatorAgent: prefs
\* TranslatorAgent.set_user_pref (reached through RoomBotHandle.set_user_pref):
\* language "" and voice NoVoice stand for a falsy argument
\* mutant: an empty argument keeps the value of the previous entry (a merge)
PrefsAfter_Merge(prefs, user_id, language, voice) ==
    LET i    == PrefIndex(prefs, user_id)
        lang == IF language # "" THEN language
                ELSE IF i # 0 THEN prefs[i].language ELSE DefaultLanguage
        vc   == IF voice # NoVoice THEN voice
                ELSE IF i # 0 THEN prefs[i].voice ELSE get_default_voice(lang)
        pref == [id |-> user_id, language |-> lang, voice |-> vc]
    IN  IF i = 0 THEN Append(prefs, pref) ELSE [prefs EXCEPT ![i] = pref]

\* the store after self.user_prefs[user_id] = {"language": ..., "voice": ...}
PrefsAfter(prefs, user_id, language, voice) ==
    LET lang == IF language = "" THEN DefaultLanguage ELSE language
        vc   == IF voice = NoVoice THEN get_default_voice(lang) ELSE voice
        pref == [id |-> user_id, language |-> lang, voice |-> vc]
        i    == PrefIndex(prefs, user_id)
    IN  IF i = 0 THEN Append(prefs, pref) ELSE [prefs EXCEPT ![i] = pref]

set_user_pref(user_id, language, voice) ==
    /\ nprefs < MaxPrefCalls
    /\ user_prefs' = PrefsAfter(user_prefs, user_id, language, voice)
    /\ nprefs' = nprefs + 1
    /\ UNCHANGED <<reader, buffer, sinceVoice, nframes, chunks, tasks, sema, stream, lifeVars>>

\* ------------------------------------- TranslatorAgent.handle_speech_chunk
\* The task made by the reader starts running: _process_speech_chunk calls
\* handle_speech_chunk, which reads the speaker's language, checks the size
\* and starts speech_to_text_whisper in a thread.
\* mutant: the MIN_SPEECH_BYTES check of handle_speech_chunk is missing
HandleStart_NoCheck(c) ==
    /\ chunks[c].pc = "created"
    /\ LET lang == SpeakerLang(user_prefs, chunks[c].speaker)
       IN  chunks' = [chunks EXCEPT ![c] =
               IF @.bytes = 0
               THEN [@ EXCEPT !.pc = "done", !.srcLang = lang, !.prefsAt = user_prefs]
               ELSE [@ EXCEPT !.pc = "stt", !.stt = @ + 1, !.srcLang = lang,
                              !.prefsAt = user_prefs]]
    /\ UNCHANGED <<reader, buffer, sinceVoice, nframes, tasks, user_prefs, sema, nprefs, stream, lifeVars>>

HandleStart(c) ==
    /\ chunks[c].pc = "created"
    /\ LET lang == SpeakerLang(user_prefs, chunks[c].speaker)
       IN  chunks' = [chunks EXCEPT ![c] =
               IF @.bytes = 0 \/ @.bytes < MIN_SPEECH_BYTES
               THEN [@ EXCEPT !.pc = "done", !.srcLang = lang, !.prefsAt = user_prefs]
               ELSE [@ EXCEPT !.pc = "stt", !.stt = @ + 1, !.srcLang = lang,
                              !.prefsAt = user_prefs]]
    /\ UNCHANGED <<reader, buffer, sinceVoice, nframes, tasks, user_prefs, sema, nprefs, stream, lifeVars>>

\* mutant: the `target_id == speaker_id` check is missing
Listeners_IncludeSpeaker(speaker, prefs) == prefs

\* the tasks handle_speech_chunk creates for chunk c from the preferences prefs
RECURSIVE Listeners(_, _)
Listeners(speaker, prefs) ==
    IF prefs = <<>> THEN <<>>
    ELSE IF prefs[1].id = speaker THEN Listeners(speaker, Tail(prefs))
         ELSE <<prefs[1]>> \o Listeners(speaker, Tail(prefs))

FanOut(c, speaker, prefs) ==
    LET ls == Listeners(speaker, prefs)
    IN  {[c |-> c, ord |-> i, target |-> ls[i].id, to_lang |-> ls[i].language,
          voice |-> ls[i].voice, pc |-> "start",
          tr |-> 0, tts |-> 0, said |-> FALSE, res |-> "none"] : i \in 1..Len(ls)}

\* mutant: a failed recognition is retried
SttReturn_Retry(c, out) ==
    /\ chunks[c].pc = "stt"
    /\ IF out = "raise"
       THEN /\ chunks' = [chunks EXCEPT ![c].stt = @ + 1]
            /\ UNCHANGED tasks
       ELSE IF out = "empty"
       THEN /\ chunks' = [chunks EXCEPT ![c].pc = "done", ![c].recognized = out]
            /\ UNCHANGED tasks
       ELSE LET new == FanOut(c, chunks[c].speaker, user_prefs)
            IN  /\ tasks' = tasks \cup new
                /\ chunks' = [chunks EXCEPT ![c].recognized = out,
                                  ![c].pc = IF new = {} THEN "done" ELSE "gather"]
    /\ UNCHANGED <<reader, buffer, sinceVoice, nframes, user_prefs, sema, nprefs, stream, lifeVars>>

\* mutant: the `if not recognized` check is missing
SttReturn_NoAbort(c, out) ==
    /\ chunks[c].pc = "stt"
    /\ IF out = "raise"
       THEN /\ chunks' = [chunks EXCEPT ![c].pc = "done", ![c].recognized = out]
            /\ UNCHANGED tasks
       ELSE LET new == FanOut(c, chunks[c].speaker, user_prefs)
            IN  /\ tasks' = tasks \cup new
                /\ chunks' = [chunks EXCEPT ![c].recognized = out,
                                  ![c].pc = IF new = {} THEN "done" ELSE "gather"]
    /\ UNCHANGED <<reader, buffer, sinceVoice, nframes, user_prefs, sema, nprefs, stream, lifeVars>>

\* speech_to_text_whisper returns: out is "text", "empty" or "raise"
SttReturn(c, out) ==
    /\ chunks[c].pc = "stt"
    /\ IF out # "text"
       THEN /\ chunks' = [chunks EXCEPT ![c].pc = "done", ![c].recognized = out]
            /\ UNCHANGED tasks
       ELSE LET new == FanOut(c, chunks[c].speaker, user_prefs)
            IN  /\ tasks' = tasks \cup new
                /\ chunks' = [chunks EXCEPT ![c].recognized = out,
                                  ![c].pc = IF new = {} THEN "done" ELSE "gather"]
    /\ UNCHANGED <<reader, buffer, sinceVoice, nframes, user_prefs, sema, nprefs, stream, lifeVars>>

\* asyncio.gather(*tasks) returns once every task of the chunk is done
GatherDone(c) ==
    /\ chunks[c].pc = "gather"
    /\ \A t \in tasks : t.c = c => t.pc = "done"
    /\ chunks' = [chunks EXCEPT ![c].pc = "done"]
    /\ UNCHANGED <<reader, buffer, sinceVoice, nframes, tasks, user_prefs, sema, nprefs, stream, lifeVars>>

\* -------------------------- TranslatorAgent._translate_and_play_for_target
\* the task list with task t replaced by its next state
Put(t, new) == (tasks \ {t}) \cup {new}

\* mutant: the body is entered without waiting for a slot
Acquire_NoLimit(t) ==
    /\ t.pc = "start"
    /\ sema' = sema - 1
    /\ tasks' = Put(t, [t EXCEPT !.pc = "translate", !.tr = @ + 1])
    /\ UNCHANGED <<reader, buffer, sinceVoice, nframes, chunks, user_prefs, nprefs, stream, lifeVars>>

\* `async with self._tts_sema` is entered and translate_text_murf is started
Acquire(t) ==
    /\ t.pc = "start"
    /\ sema > 0
    /\ sema' = sema - 1
    /\ tasks' = Put(t, [t EXCEPT !.pc = "translate", !.tr = @ + 1])
    /\ UNCHANGED <<reader, buffer, sinceVoice, nframes, chunks, user_prefs, nprefs, stream, lifeVars>>

\* mutant: a failed translation ends the other tasks of the chunk as well
TranslateReturn_AbortSiblings(t, out) ==
    /\ t.pc = "translate"
    /\ IF out = "text"
       THEN /\ tasks' = Put(t, [t EXCEPT !.pc = "tts", !.tts = @ + 1])
            /\ UNCHANGED sema
       ELSE LET sib   == {u \in tasks : u.c = t.c /\ u # t /\ u.pc # "done"}
                freed == {u \in sib : u.pc # "start"}
            IN  /\ tasks' = (tasks \ (sib \cup {t}))
                                \cup {[u EXCEPT !.pc = "done"] : u \in sib}
                                \cup {[t EXCEPT !.pc = "done", !.res = "failed"]}
                /\ sema' = sema + 1 + Cardinality(freed)
    /\ UNCHANGED <<reader, buffer, sinceVoice, nframes, chunks, user_prefs, nprefs, stream, lifeVars>>

\* translate_text_murf returns: out is "text", "empty" or "raise"
TranslateReturn(t, out) ==
    /\ t.pc = "translate"
    /\ IF out = "text"
       THEN /\ tasks' = Put(t, [t EXCEPT !.pc = "tts", !.tts = @ + 1])
            /\ UNCHANGED sema
       ELSE /\ tasks' = Put(t, [t EXCEPT !.pc = "done", !.res = "failed"])
            /\ sema' = sema + 1
    /\ UNCHANGED <<reader, buffer, sinceVoice, nframes, chunks, user_prefs, nprefs, stream, lifeVars>>

\* mutant: a synthesis that gives no audio ends the task with its slot held
TtsReturn_KeepSlot(t, out) ==
    /\ t.pc = "tts"
    /\ IF out = "blob"
       THEN tasks' = Put(t, [t EXCEPT !.pc = "say", !.said = TRUE])
       ELSE tasks' = Put(t, [t EXCEPT !.pc = "done", !.res = "failed"])
    /\ UNCHANGED sema
    /\ UNCHANGED <<reader, buffer, sinceVoice, nframes, chunks, user_prefs, nprefs, stream, lifeVars>>

\* generate_speech_from_text returns: out is "blob", "empty" or "raise"; with
\* a blob the task calls session.say(audio=...) and awaits it
TtsReturn(t, out) ==
    /\ t.pc = "tts"
    /\ IF out = "blob"
       THEN /\ tasks' = Put(t, [t EXCEPT !.pc = "say", !.said = TRUE])
            /\ UNCHANGED sema
       ELSE /\ tasks' = Put(t, [t EXCEPT !.pc = "done", !.res = "failed"])
            /\ sema' = sema + 1
    /\ UNCHANGED <<reader, buffer, sinceVoice, nframes, chunks, user_prefs, nprefs, stream, lifeVars>>

\* mutant: the slot is given back only after a successful say()
SayReturn_LeakOnFail(t, out) ==
    /\ t.pc = "say"
    /\ tasks' = Put(t, [t EXCEPT !.pc = "done",
                              !.res = IF out = "ok" THEN "played" ELSE "failed"])
    /\ sema' = IF out = "ok" THEN sema + 1 ELSE sema
    /\ UNCHANGED <<reader, buffer, sinceVoice, nframes, chunks, user_prefs, nprefs, stream, lifeVars>>

\* the awaited session.say() returns ("ok") or raises ("raise")
SayReturn(t, out) ==
    /\ t.pc = "say"
    /\ tasks' = Put(t, [t EXCEPT !.pc = "done",
                              !.res = IF out = "ok" THEN "played" ELSE "failed"])
    /\ sema' = sema + 1
    /\ UNCHANGED <<reader, buffer, sinceVoice, nframes, chunks, user_prefs, nprefs, stream, lifeVars>>

\* who plays the audio of task t's session.say(): the call names no target,
\* the session publishes into the room, and the room page of every participant
\* attaches every remote audio track
Hearers(t) == Users

\* --------------------------------------------------- pipeline specification
Speech == [n |-> BigFrameBytes, amp |-> 300]
Hush == Silent50
Languages == {"", "en-US"}
Voices == {NoVoice}

Next ==
    \/ TrackSubscribed("u1")
    \/ \E data \in {Speech, Hush} :
          Len(chunks) < MaxChunks /\ ReadFrame("u1", data, sample_rate, StallMs)
    \/ \E u \in Users, l \in Languages, v \in Voices : set_user_pref(u, l, v)
    \/ \E c \in 1..Len(chunks) : HandleStart(c)
    \/ \E c \in 1..Len(chunks), out \in {"text", "empty", "raise"} : SttReturn(c, out)
    \/ \E c \in 1..Len(chunks) : GatherDone(c)
    \/ \E t \in tasks : Acquire(t)
    \/ \E t \in tasks, out \in {"text", "empty", "raise"} : TranslateReturn(t, out)
    \/ \E t \in tasks, out \in {"blob", "empty", "raise"} : TtsReturn(t, out)
    \/ \E t \in tasks, out \in {"ok", "raise"} : SayReturn(t, out)

Spec == Init /\ [][Next]_vars

\* ------------------------------------------------------ governor scenario
\* a room of one speaker and one listener who keeps the default language
GovNext ==
    \/ TrackSubscribed("u1")
    \/ Len(chunks) < MaxGovChunks /\ ReadFrame("u1", Speech, sample_rate, StallMs)
    \/ set_user_pref("u2", "", NoVoice)
    \/ \E c \in 1..Len(chunks) : HandleStart(c)
    \/ \E c \in 1..Len(chunks) : SttReturn(c, "text")
    \/ \E c \in 1..Len(chunks) : GatherDone(c)
    \/ \E t \in tasks : Acquire(t)
    \/ \E t \in tasks, out \in {"text", "raise"} : TranslateReturn(t, out)
    \/ \E t \in tasks, out \in {"blob", "empty"} : TtsReturn(t, out)
    \/ \E t \in tasks : SayReturn(t, "ok")

SpecGov == Init /\ [][GovNext]_vars

\* ---------------------------------------------------- pipeline properties
TasksOf(c) == {t \in tasks : t.c = c}
Inside == {t \in tasks : t.pc \in {"translate", "tts", "say"}}
Finished(c) == Chunk(c).pc \in {"discarded", "done"}

C2_Original ==
    \A c \in ChunkIds : \A t, u \in TasksOf(c) :
        (t # u /\ t.to_lang = u.to_lang)
            => /\ t.tr + u.tr <= 1
               /\ t.tts + u.tts <= 1

\* C7: in the fan-out a task ends without playing only through a failure of
\* its own calls: whatever happens to the other targets of the chunk, a
\* finished task whose translation and synthesis succeeded has handed its
\* audio to session.say(), and a failed task gives back its slot.
C7_FailureIsolation ==
    /\ \A t \in tasks :
          t.pc = "done"
              => /\ t.res \in {"played", "failed"}
                 /\ t.res = "played" => t.tr = 1 /\ t.tts = 1 /\ t.said
    /\ sema = MAX_CONCURRENT_TTS - Cardinality(Inside)

C7_Witness ==
    /\ \E t, u \in tasks :
          /\ t.c = u.c
          /\ t.to_lang # u.to_lang
          /\ t.pc = "done" /\ t.res = "failed" /\ ~t.said
          /\ u.pc = "done" /\ u.res = "played"
          /\ \E v \in tasks : v.c > t.c /\ v.res = "played"

\* the (target, language, voice) triples of a set of tasks
Triples(ts) == {<<t.target, t.to_lang, t.voice>> : t \in ts}

\* C8 as stated: the targets, their languages and voices and the source
\* language used for a chunk are those of the preferences at the moment
\* handle_speech_chunk was entered.
C8_Original ==
    \A c \in ChunkIds :
        Chunk(c).recognized = "text"
            => /\ Triples(TasksOf(c)) = Triples(FanOut(c, Chunk(c).speaker, Chunk(c).prefsAt))
               /\ Chunk(c).srcLang = SpeakerLang(Chunk(c).prefsAt, Chunk(c).speaker)

\* C9 as stated: recognition, translation and synthesis calls in flight,
\* counted together, never exceed MAX_CONCURRENT_TTS.
C9_Original ==
    Cardinality({c \in ChunkIds : Chunk(c).pc = "stt"})
        + Cardinality({t \in tasks : t.pc \in {"translate", "tts"}})
        <= MAX_CONCURRENT_TTS

\* C9 (amended): the semaphore bounds translation and synthesis only: at most
\* MAX_CONCURRENT_TTS tasks are inside _translate_and_play_for_target's
\* guarded body, the free slots are the ones not held by them, and a task that
\* finds no slot has made no call and has not ended; recognition runs outside
\* the semaphore.
C9_Governor ==
    /\ Cardinality(Inside) <= MAX_CONCURRENT_TTS
    /\ sema = MAX_CONCURRENT_TTS - Cardinality(Inside)
    /\ \A t \in tasks :
          t.pc = "start" => t.tr = 0 /\ t.res = "none"

C9_Witness ==
    /\ sema = 0
    /\ \E t \in tasks : t.pc = "start"
    /\ \E t \in tasks : t.pc = "tts"

\* C10: a chunk whose recognition returned empty text or raised is over: it
\* has no translate/synthesize task, so nothing is translated, synthesized or
\* played for it.
C10_RecognitionFailureAborts ==
    \A c \in ChunkIds :
        Chunk(c).recognized \in {"empty", "raise"}
            => Chunk(c).pc = "done" /\ TasksOf(c) = {}

C10_Witness ==
    /\ \E c \in ChunkIds :
          /\ Chunk(c).recognized = "empty"
          /\ FanOut(c, Chunk(c).speaker, user_prefs) # {}
          /\ FanOut(c, Chunk(c).speaker, Chunk(c).prefsAt) # {}
    /\ \E c \in ChunkIds : Chunk(c).recognized = "raise"

\* ------------------------------------------------------- fan-out scenario
\* every participant, the speaker included, may register its preference (u2
\* asks for en-US, the others keep the default) while u1's chunk is dispatched
FanLang(u) == IF u = "u2" THEN "en-US" ELSE ""

FanNext ==
    \/ TrackSubscribed("u1")
    \/ Len(chunks) < MaxFanChunks /\ ReadFrame("u1", Speech, sample_rate, StallMs)
    \/ \E u \in Users : set_user_pref(u, FanLang(u), NoVoice)
    \/ \E c \in 1..Len(chunks) : HandleStart(c)
    \/ \E c \in 1..Len(chunks) : SttReturn(c, "text")
    \/ \E c \in 1..Len(chunks) : GatherDone(c)
    \/ \E t \in tasks : Acquire(t)
    \/ \E t \in tasks : TranslateReturn(t, "text")
    \/ \E t \in tasks : TtsReturn(t, "blob")
    \/ \E t \in tasks : SayReturn(t, "ok")

SpecFan == Init /\ [][FanNext]_vars

\* C11: no translate/synthesize task of a chunk targets the chunk's speaker,
\* also when the speaker has an entry in the preference store.
C11_SpeakerExcluded ==
    \A t \in tasks : t.target # Chunk(t.c).speaker

C11_Witness ==
    \E c \in ChunkIds :
        /\ Chunk(c).recognized = "text"
        /\ PrefIndex(Chunk(c).prefsAt, Chunk(c).speaker) # 0
        /\ Cardinality(TasksOf(c)) = 1

\* the listeners of chunk c whose language is lang
Group(c, lang) == {u.target : u \in {v \in TasksOf(c) : v.to_lang = lang}}

\* C12 as stated: the audio a task synthesized in one language is played only
\* to the listeners of the chunk in that language, never to the speaker or to
\* a listener of another language.
C12_Original ==
    \A t \in tasks : t.said => Hearers(t) \subseteq Group(t.c, t.to_lang)

\* ------------------------------------------------- ingestion specification
\* two speakers whose readers run side by side, with the dispatch of their
\* chunks up to the end of recognition
Speakers == {"u1", "u2"}

IngestNext ==
    \/ \E s \in Speakers : TrackSubscribed(s)
    \/ \E s \in Speakers, data \in {Speech, Loud50, Hush} :
          /\ Len(chunks) < MaxIngestChunks /\ nframes < MaxIngestFrames
          /\ ReadFrame(s, data, sample_rate, StallMs)
    \/ \E s \in Speakers : StreamEnd(s)
    \/ \E s \in Speakers : ReadFail(s)
    \/ \E c \in 1..Len(chunks) : HandleStart(c)
    \/ \E c \in 1..Len(chunks), out \in {"text", "raise"} : SttReturn(c, out)

SpecIngest == Init /\ [][IngestNext]_vars

\* ---------------------------------------------------- ingestion properties
\* PCM runs a followed by PCM runs b
RECURSIVE Cat(_, _)
Cat(a, b) == IF b = <<>> THEN a ELSE Cat(Extend(a, b[1]), Tail(b))

\* the snapshots of speaker s among chunks 1..i (only the dispatched ones when
\* dispatchedOnly), one after the other
RECURSIVE Snapshots(_, _, _)
Snapshots(s, i, dispatchedOnly) ==
    IF i = 0 THEN <<>>
    ELSE IF Chunk(i).speaker = s /\ ~(dispatchedOnly /\ Chunk(i).pc = "discarded")
         THEN Cat(Snapshots(s, i - 1, dispatchedOnly), Chunk(i).pcm)
         ELSE Snapshots(s, i - 1, dispatchedOnly)

\* C13: a flush moves the whole buffer into one snapshot and leaves the buffer
\* empty, whatever the state of earlier dispatches: at every moment the bytes a
\* reader ingested are exactly its snapshots in order followed by its buffer,
\* so no byte is in two chunks and frames ingested during a dispatch are in
\* the next one.
C13_AtomicFlush ==
    \A s \in Users :
        Cat(Snapshots(s, Len(chunks), FALSE), buffer[s]) = stream[s]

C13_Witness ==
    \E c, d \in ChunkIds :
        /\ c < d
        /\ Chunk(c).speaker = "u1" /\ Chunk(d).speaker = "u1"
        /\ Chunk(c).pc = "stt" /\ Chunk(d).pc = "created"
        /\ reader["u1"] = "running" /\ buffer["u1"] # <<>>

\* C14 as stated: once a speaker's stream has ended, every byte the reader
\* ingested is in a chunk that was handed to recognition.
C14_Original ==
    \A s \in Users :
        reader[s] = "ended" => Snapshots(s, Len(chunks), TRUE) = stream[s]

\* C18: the step in which one speaker's reader fails changes nothing else:
\* the other readers and their buffers, the chunks already dispatched and
\* their tasks are as before.
C18_ReaderFailureIsolated ==
    [][\A s \in Users :
          (reader[s] = "running" /\ reader'[s] = "failed")
              => /\ \A o \in Users \ {s} :
                        reader'[o] = reader[o] /\ buffer'[o] = buffer[o]
                 /\ chunks' = chunks
                 /\ tasks' = tasks]_vars

C18_Witness ==
    /\ reader["u1"] = "failed" /\ reader["u2"] = "running"
    /\ buffer["u2"] # <<>>
    /\ \E c, d \in ChunkIds :
          /\ Chunk(c).speaker = "u1" /\ Chunk(c).recognized = "text"
          /\ Chunk(d).speaker = "u2" /\ Chunk(d).pc = "stt"

\* ------------------------------------------------- room management (main.py)
RoomCode == "r1"
RoomUsers == {"u1", "u2"}
RoomLanguages == {"en", "hi", "fr"}

HasRoom(code) == code \in DOMAIN rooms

\* rooms[code] = room
WithRoom(code, room) ==
    [c \in DOMAIN rooms \cup {code} |-> IF c = code THEN room ELSE rooms[c]]

IsMember(ms, u) == \E i \in 1..Len(ms) : ms[i].user_id = u

\* asyncio.create_task(_reconcile_bots(code))
Scheduled(code) == Append(recs, [room_code |-> code, pc |-> "scheduled", h |-> 0])

\* POST /create_room; _room_code() is taken to return a code not in use
create_room(user_id, public, language) ==
    /\ nreqs < MaxRequests
    /\ ~HasRoom(RoomCode)
    /\ rooms' = WithRoom(RoomCode,
           [public |-> public,
            members |-> <<[user_id |-> user_id,
                           language |-> IF language = "" THEN "en" ELSE language]>>,
            bots |-> {}])
    /\ nreqs' = nreqs + 1
    /\ UNCHANGED <<_bots, handles, recs, pipeVars>>

\* mutant: the membership test before the append is missing
Joined_Always(ms, u, language) ==
    Append(ms, [user_id |-> u, language |-> language])

\* the member list after req.user_id joined with req.language
Joined(ms, u, language) ==
    IF IsMember(ms, u) THEN ms ELSE Append(ms, [user_id |-> u, language |-> language])

\* POST /join_room; room_code "" stands for a request without a room code
join_room(user_id, room_code, language) ==
    /\ nreqs < MaxRequests
    /\ nreqs' = nreqs + 1
    /\ UNCHANGED <<_bots, handles, pipeVars>>
    /\ IF room_code # ""
       THEN IF ~HasRoom(room_code) \/ Len(rooms[room_code].members) >= MAX_ROOM_CAPACITY
            THEN UNCHANGED <<rooms, recs>>
            ELSE /\ rooms' = [rooms EXCEPT ![room_code].members = Joined(@, user_id, language)]
                 /\ recs' = Scheduled(room_code)
       ELSE LET public == {c \in DOMAIN rooms :
                              rooms[c].public /\ Len(rooms[c].members) < MAX_ROOM_CAPACITY}
            IN  IF public = {}
                THEN UNCHANGED <<rooms, recs>>
                ELSE \E pick \in public :
                        /\ rooms' = [rooms EXCEPT ![pick].members = Joined(@, user_id, language)]
                        /\ recs' = Scheduled(pick)

\* POST /leave_room
leave_room(user_id, room_code) ==
    /\ nreqs < MaxRequests
    /\ nreqs' = nreqs + 1
    /\ UNCHANGED <<_bots, handles, pipeVars>>
    /\ IF ~HasRoom(room_code)
       THEN UNCHANGED <<rooms, recs>>
       ELSE /\ rooms' = [rooms EXCEPT ![room_code].members =
                             SelectSeq(@, LAMBDA m : m.user_id # user_id)]
            /\ recs' = Scheduled(room_code)

\* POST /livekit/join-token, with LiveKit configured
livekit_join_token(user_id, room_code, language) ==
    /\ nreqs < MaxRequests
    /\ nreqs' = nreqs + 1
    /\ UNCHANGED <<_bots, handles, pipeVars>>
    /\ LET room == IF HasRoom(room_code) THEN rooms[room_code]
                   ELSE [public |-> TRUE, members |-> <<>>, bots |-> {}]
           ms   == room.members
       IN  rooms' = WithRoom(room_code,
               [room EXCEPT !.members =
                   IF IsMember(ms, user_id)
                   THEN [i \in 1..Len(ms) |->
                            IF ms[i].user_id = user_id
                            THEN [ms[i] EXCEPT !.language = language] ELSE ms[i]]
                   ELSE Append(ms, [user_id |-> user_id, language |-> language])])
    /\ recs' = Scheduled(room_code)

\* ------------------------------------------------ bot lifecycle (bot_worker.py)
\* RoomBotHandle(room_code, ...) with its _starter task just created
NewHandle(code) ==
    [room_code |-> code, start |-> "scheduled", room |-> "none",
     closed |-> FALSE, stop |-> "none"]

\* sorted(set(member_langs))
MemberLangs(ms) == {ms[i].language : i \in 1..Len(ms)}

\* room["bots"].clear() of the room a reconcile task holds
BotsCleared(code) == [rooms EXCEPT ![code].bots = {}]

\* mutant: stop() does not look at _closed
Closed_Never(h) == FALSE

\* stop() returns at once: `if self._closed`
Closed(h) == handles[h].closed

\* mutant: ensure_room_bot does not look into _bots
NoBotFor_Always(room_code) == TRUE

\* ensure_room_bot goes on to make a handle: `room_code in _bots` is false
NoBotFor(room_code) == room_code \notin DOMAIN _bots

\* a _reconcile_bots task runs, up to its end or up to the first await of
\* RoomBotHandle.stop() that suspends it
ReconcileRun(r) ==
    /\ recs[r].pc = "scheduled"
    /\ UNCHANGED <<nreqs, pipeVars>>
    /\ LET code == recs[r].room_code
       IN  IF ~HasRoom(code)
           THEN /\ recs' = [recs EXCEPT ![r].pc = "done"]
                /\ UNCHANGED <<rooms, _bots, handles>>
           ELSE IF Cardinality(MemberLangs(rooms[code].members)) <= 1
           THEN \* stop_room_bot(room_code)
                IF code \in DOMAIN _bots /\ ~Closed(_bots[code])
                THEN /\ _bots' = [c \in DOMAIN _bots \ {code} |-> _bots[c]]
                     /\ handles' = [handles EXCEPT ![_bots[code]].closed = TRUE,
                                                   ![_bots[code]].stop = "session_aclose"]
                     /\ recs' = [recs EXCEPT ![r].pc = "stopping", ![r].h = _bots[code]]
                     /\ UNCHANGED rooms
                ELSE /\ _bots' = [c \in DOMAIN _bots \ {code} |-> _bots[c]]
                     /\ rooms' = BotsCleared(code)
                     /\ recs' = [recs EXCEPT ![r].pc = "done"]
                     /\ UNCHANGED handles
           ELSE LET unique   == MemberLangs(rooms[code].members)
                    existing == rooms[code].bots
                    missing  == unique \ existing
                    stale    == existing \ unique
                    \* ensure_room_bot makes a handle unless one is registered
                    make     == missing # {} /\ NoBotFor(code)
                IN  /\ handles' = IF make THEN Append(handles, NewHandle(code)) ELSE handles
                    /\ _bots' = IF make
                                THEN [c \in DOMAIN _bots \cup {code} |->
                                         IF c = code THEN Len(handles) + 1 ELSE _bots[c]]
                                ELSE _bots
                    /\ IF stale = {}
                       THEN /\ rooms' = [rooms EXCEPT ![code].bots = existing \cup missing]
                            /\ recs' = [recs EXCEPT ![r].pc = "done"]
                       ELSE \* t["task"] is a RoomBotHandle: .cancel() raises
                            \E lang \in stale :
                               /\ rooms' = [rooms EXCEPT ![code].bots =
                                                (existing \cup missing) \ {lang}]
                               /\ recs' = [recs EXCEPT ![r].pc = "raised"]

\* RoomBotHandle.stop() has returned to stop_room_bot and that to the
\* reconcile task awaiting it, which clears room["bots"] and ends
StopReturned(h) ==
    IF \E i \in 1..Len(recs) : recs[i].pc = "stopping" /\ recs[i].h = h
    THEN LET r == CHOOSE i \in 1..Len(recs) : recs[i].pc = "stopping" /\ recs[i].h = h
         IN  /\ rooms' = BotsCleared(recs[r].room_code)
             /\ recs' = [recs EXCEPT ![r].pc = "done"]
    ELSE \* stop() was not called by a reconcile task
         UNCHANGED <<rooms, recs>>

\* stop(): the awaited _session.aclose() returns or raises (which is logged)
SessionAcloseReturn(h) ==
    /\ handles[h].stop = "session_aclose"
    /\ UNCHANGED <<_bots, nreqs, pipeVars>>
    /\ IF handles[h].room # "none"
       THEN /\ handles' = [handles EXCEPT ![h].stop = "room_aclose"]
            /\ UNCHANGED <<rooms, recs>>
       ELSE /\ handles' = [handles EXCEPT ![h].stop = "done"]
            /\ StopReturned(h)

\* stop(): the awaited _room.aclose() returns or raises; _tasks is empty, so
\* the loop that cancels background tasks cancels nothing
RoomAcloseReturn(h) ==
    /\ handles[h].stop = "room_aclose"
    /\ handles' = [handles EXCEPT ![h].room = "none", ![h].stop = "done"]
    /\ StopReturned(h)
    /\ UNCHANGED <<_bots, nreqs, pipeVars>>

\* the _starter task runs start() up to the await of _room.connect();
\* out is the outcome of _mint_token
StarterRun(h, out) ==
    /\ handles[h].start = "scheduled"
    /\ handles' = IF out = "ok"
                  THEN [handles EXCEPT ![h].start = "connect", ![h].room = "open"]
                  ELSE [handles EXCEPT ![h].start = "failed"]
    /\ UNCHANGED <<rooms, _bots, recs, nreqs, pipeVars>>

\* start(): _room.connect() returns or raises
ConnectReturn(h, out) ==
    /\ handles[h].start = "connect"
    /\ handles' = IF out = "ok"
                  THEN [handles EXCEPT ![h].start = "session"]
                  ELSE [handles EXCEPT ![h].start = "failed", ![h].room = "none"]
    /\ UNCHANGED <<rooms, _bots, recs, nreqs, pipeVars>>

\* start(): _session.start() returns or raises; on success the track handler
\* is registered on self._room, which raises into _starter's except when a
\* stop() has set _room to None meanwhile
SessionStartReturn(h, out) ==
    /\ handles[h].start = "session"
    /\ handles' = IF out = "ok"
                  THEN [handles EXCEPT ![h].start =
                           IF handles[h].room = "none" THEN "aborted" ELSE "hooked"]
                  ELSE [handles EXCEPT ![h].start = "failed", ![h].room = "none"]
    /\ UNCHANGED <<rooms, _bots, recs, nreqs, pipeVars>>

\* ------------------------------------------------------ room specification
RoomNext ==
    \/ \E u \in RoomUsers, l \in RoomLanguages :
          nreqs < MaxRoomRequests /\ create_room(u, TRUE, l)
    \/ \E u \in RoomUsers, c \in {"", RoomCode}, l \in RoomLanguages :
          nreqs < MaxRoomRequests /\ join_room(u, c, l)
    \/ \E u \in RoomUsers :
          nreqs < MaxRoomRequests /\ leave_room(u, RoomCode)
    \/ \E u \in RoomUsers, l \in RoomLanguages :
          nreqs < MaxRoomRequests /\ livekit_join_token(u, RoomCode, l)
    \/ \E r \in 1..Len(recs) : ReconcileRun(r)
    \/ \E h \in 1..Len(handles) : SessionAcloseReturn(h)
    \/ \E h \in 1..Len(handles) : RoomAcloseReturn(h)
    \/ \E h \in 1..Len(handles), out \in {"ok", "raise"} : StarterRun(h, out)
    \/ \E h \in 1..Len(handles), out \in {"ok", "raise"} : ConnectReturn(h, out)
    \/ \E h \in 1..Len(handles), out \in {"ok", "raise"} : SessionStartReturn(h, out)

SpecRoom == Init /\ [][RoomNext]_vars

\* ------------------------------------------------------ stop specification
\* u1 (en) made the room, u2 (hi) joined and the room's bot came up; u2 has
\* left again and the reconcile task of that request is about to run
BotUpMemberLeft ==
    /\ rooms = [c \in {RoomCode} |->
                  [public |-> TRUE,
                   members |-> <<[user_id |-> "u1", language |-> "en"]>>,
                   bots |-> {"en", "hi"}]]
    /\ _bots = [c \in {RoomCode} |-> 1]
    /\ handles = <<[NewHandle(RoomCode) EXCEPT !.start = "hooked", !.room = "open"]>>
    /\ recs = <<[room_code |-> RoomCode, pc |-> "done", h |-> 0],
                [room_code |-> RoomCode, pc |-> "scheduled", h |-> 0]>>
    /\ nreqs = 3

StopInit ==
    /\ reader = [s \in Users |-> "none"]
    /\ buffer = [s \in Users |-> <<>>]
    /\ sinceVoice = [s \in Users |-> 0]
    /\ nframes = 0
    /\ chunks = <<>>
    /\ tasks = {}
    /\ user_prefs = <<>>
    /\ sema = MAX_CONCURRENT_TTS
    /\ nprefs = 0
    /\ stream = [s \in Users |-> <<>>]
    /\ BotUpMemberLeft
    /\ FrameIdle

\* the readers and the agent are those of handle 1; its room delivers track
\* events and frames only while it is open
StopNext ==
    \/ handles[1].room = "open" /\ TrackSubscribed("u1")
    \/ /\ handles[1].room = "open" /\ Len(chunks) < MaxStopChunks
       /\ ReadFrame("u1", Speech, sample_rate, StallMs)
    \/ set_user_pref("u2", "", NoVoice)
    \/ \E c \in 1..Len(chunks) : HandleStart(c)
    \/ \E c \in 1..Len(chunks) : SttReturn(c, "text")
    \/ \E c \in 1..Len(chunks) : GatherDone(c)
    \/ \E t \in tasks : Acquire(t)
    \/ \E t \in tasks : TranslateReturn(t, "text")
    \/ \E t \in tasks : TtsReturn(t, "blob")
    \/ \E t \in tasks, out \in {"ok", "raise"} : SayReturn(t, out)
    \/ \E r \in 1..Len(recs) : ReconcileRun(r)
    \/ \E h \in 1..Len(handles) : SessionAcloseReturn(h)
    \/ \E h \in 1..Len(handles) : RoomAcloseReturn(h)

SpecStop == StopInit /\ [][StopNext]_vars

\* ---------------------------------------------------- lifecycle properties
\* every scheduled _reconcile_bots task has ended
Reconciled == \A r \in 1..Len(recs) : recs[r].pc \in {"done", "raised"}

\* every _starter task has ended
Started == \A h \in 1..Len(handles) : handles[h].start \in {"hooked", "failed", "aborted"}

\* C16 as stated: once every scheduled reconcile task has ended, the room has
\* a registered bot handle exactly when its members have at least 2 distinct
\* languages.
C16_Original ==
    (Reconciled /\ HasRoom(RoomCode))
        => (RoomCode \in DOMAIN _bots
              <=> Cardinality(MemberLangs(rooms[RoomCode].members)) >= 2)

\* C17 as stated: when the room has a bot, every member of the room has an
\* entry with the member's language in the user_prefs of the bot's agent.
C17_Original ==
    (Reconciled /\ Started /\ HasRoom(RoomCode) /\ RoomCode \in DOMAIN _bots)
        => \A i \in 1..Len(rooms[RoomCode].members) :
              LET m == rooms[RoomCode].members[i]
              IN  /\ PrefIndex(user_prefs, m.user_id) # 0
                  /\ SpeakerLang(user_prefs, m.user_id) = m.language

\* C19 as stated: once its tasks have ended, a handle whose start failed is
\* not the room's registered bot.
C19_Original ==
    (Reconciled /\ Started)
        => \A c \in DOMAIN _bots : handles[_bots[c]].start = "hooked"

\* C20 as stated: no reconcile task (the one task of the lifecycle without an
\* except clause) ends with an exception.
C20_Original ==
    \A r \in 1..Len(recs) : recs[r].pc # "raised"

\* C15 as stated: once stop() of the bot has completed, no reader of the bot
\* ingests a frame and no dispatch of the bot starts or finishes a
\* recognition, translation, synthesis or playback call.
C15_Original ==
    [][(Len(handles) >= 1 /\ handles[1].stop = "done")
          => /\ nframes' = nframes
             /\ tasks' = tasks
             /\ \A c \in ChunkIds :
                   /\ chunks'[c].stt = chunks[c].stt
                   /\ chunks'[c].recognized = chunks[c].recognized]_vars

\* ------------------------------------------------ preference-store scenario
PrefVoices == {NoVoice, "v1"}

PrefNext ==
    \E u \in Users, l \in Languages, v \in PrefVoices : set_user_pref(u, l, v)

SpecPref == Init /\ [][PrefNext]_vars

\* the entry of user u in store prefs, <<>> when there is none
Entry(prefs, u) ==
    IF PrefIndex(prefs, u) = 0 THEN <<>> ELSE prefs[PrefIndex(prefs, u)]

\* C21: from every store the program can hold, and for every call
\* set_user_pref(u, l, v): afterwards u's entry is exactly the language and
\* voice of the call (the defaults for empty arguments) whatever it was
\* before, the store has one entry per user, every other user's entry is as
\* before, and the same call again changes nothing.
C21_LastWriteWins ==
    \A u \in Users, l \in Languages, v \in PrefVoices :
        LET after == PrefsAfter(user_prefs, u, l, v)
            lang  == IF l = "" THEN DefaultLanguage ELSE l
        IN  /\ Entry(after, u) =
                  [id |-> u, language |-> lang,
                   voice |-> IF v = NoVoice THEN get_default_voice(lang) ELSE v]
            /\ \A i, j \in 1..Len(after) : after[i].id = after[j].id => i = j
            /\ \A o \in Users \ {u} : Entry(after, o) = Entry(user_prefs, o)
            /\ PrefsAfter(after, u, l, v) = after

C21_Witness ==
    /\ nprefs = 2 /\ Len(user_prefs) = 1
    /\ user_prefs[1] = [id |-> "u2", language |-> DefaultLanguage,
                         voice |-> get_default_voice(DefaultLanguage)]

\* ---------------------------------------------- size check before recognition
NoData == [n |-> 0, amp |-> 0]

\* RoomBotHandle._process_speech_chunk entered with PCM that did not pass the
\* reader's check: a task awaiting agent.handle_speech_chunk(pcm, sr, speaker)
_process_speech_chunk(s, data, sr) ==
    /\ chunks' = Append(chunks,
           [NewChunk(s, Extend(<<>>, data), sr, 0) EXCEPT
               !.trigger = "direct", !.pc = "created"])
    /\ UNCHANGED <<reader, buffer, sinceVoice, nframes, tasks, user_prefs, sema,
                   nprefs, stream, lifeVars>>

HandleNext ==
    \/ TrackSubscribed("u1")
    \/ \E data \in {Speech, Hush} :
          /\ Len(chunks) < MaxHandleChunks
          /\ ReadFrame("u1", data, sample_rate, StallMs)
    \/ \E s \in Speakers, data \in {Speech, Hush, NoData} :
          /\ Len(chunks) < MaxHandleChunks
          /\ _process_speech_chunk(s, data, sample_rate)
    \/ \E c \in 1..Len(chunks) : HandleStart(c)
    \/ \E c \in 1..Len(chunks), out \in {"text", "empty", "raise"} : SttReturn(c, out)

SpecHandle == Init /\ [][HandleNext]_vars

\* C22: speech_to_text_whisper is never invoked on PCM shorter than
\* MIN_SPEECH_BYTES: the reader makes no task for such a snapshot, and
\* handle_speech_chunk returns before the recognition call when it is handed
\* one, so such a chunk is never recognized and never fanned out.
C22_SizeCheckedBeforeStt ==
    \A c \in ChunkIds :
        /\ Chunk(c).stt >= 1 => Chunk(c).bytes >= MIN_SPEECH_BYTES
        /\ Chunk(c).bytes < MIN_SPEECH_BYTES
              => /\ Chunk(c).pc \in {"discarded", "created", "done"}
                 /\ Chunk(c).trigger # "direct" => Chunk(c).pc = "discarded"
                 /\ Chunk(c).recognized = "none"
                 /\ TasksOf(c) = {}

C22_Witness ==
    /\ \E c \in ChunkIds :
          /\ Chunk(c).trigger = "direct" /\ Chunk(c).bytes = FrameBytes
          /\ Chunk(c).pc = "done" /\ Chunk(c).stt = 0
    /\ \E c \in ChunkIds :
          /\ Chunk(c).trigger = "silence" /\ Chunk(c).bytes = FrameBytes
          /\ Chunk(c).pc = "discarded"
    /\ \E c \in ChunkIds : Chunk(c).stt = 1

\* ------------------------------------------------------ playback scenario
\* one speaker and two listeners with different languages; every translation
\* and synthesis succeeds, and session.say() either plays the blob or raises
\* (the frame generator fails to decode it)
PlayNext ==
    \/ TrackSubscribed("u1")
    \/ Len(chunks) < MaxPlayChunks /\ ReadFrame("u1", Speech, sample_rate, StallMs)
    \/ \E u \in {"u2", "u3"} : set_user_pref(u, FanLang(u), NoVoice)
    \/ \E c \in 1..Len(chunks) : HandleStart(c)
    \/ \E c \in 1..Len(chunks) : SttReturn(c, "text")
    \/ \E c \in 1..Len(chunks) : GatherDone(c)
    \/ \E t \in tasks : Acquire(t)
    \/ \E t \in tasks : TranslateReturn(t, "text")
    \/ \E t \in tasks : TtsReturn(t, "blob")
    \/ \E t \in tasks, out \in {"ok", "raise"} : SayReturn(t, out)

SpecPlay == Init /\ [][PlayNext]_vars

\* task t after its say() failed
SayFailed(t) == [t EXCEPT !.pc = "done", !.res = "failed"]

\* C23: when session.say() fails on one synthesized blob, the step that ends
\* that target's task gives its slot back and changes no other task and no
\* chunk; the task is over (no retry), and the chunk's other targets and the
\* later chunks go on to be played.
C23_DecodeFailureDropsOneItem ==
    [][\A t \in tasks :
          (t.pc = "say" /\ SayFailed(t) \in tasks')
              => /\ sema' = sema + 1
                 /\ tasks' \ {SayFailed(t)} = tasks \ {t}
                 /\ chunks' = chunks
                 /\ reader' = reader /\ buffer' = buffer]_vars

C23_Witness ==
    \E t, u, v \in tasks :
        /\ t.c = u.c /\ t.target # u.target
        /\ t.said /\ t.pc = "done" /\ t.res = "failed"
        /\ u.pc = "done" /\ u.res = "played"
        /\ v.c > t.c /\ v.target = t.target /\ v.pc = "done" /\ v.res = "played"
        /\ sema = MAX_CONCURRENT_TTS

\* ---------------------------------------------------------- slot scenario
\* one speaker and two listeners, two chunks: four tasks compete for the three
\* slots, and every call inside the guarded body may succeed or fail
SlotNext ==
    \/ TrackSubscribed("u1")
    \/ Len(chunks) < MaxPlayChunks /\ ReadFrame("u1", Speech, sample_rate, StallMs)
    \/ \E u \in {"u2", "u3"} : set_user_pref(u, FanLang(u), NoVoice)
    \/ \E c \in 1..Len(chunks) : HandleStart(c)
    \/ \E c \in 1..Len(chunks) : SttReturn(c, "text")
    \/ \E c \in 1..Len(chunks) : GatherDone(c)
    \/ \E t \in tasks : Acquire(t)
    \/ \E t \in tasks, out \in {"text", "raise"} : TranslateReturn(t, out)
    \/ \E t \in tasks, out \in {"blob", "empty"} : TtsReturn(t, out)
    \/ \E t \in tasks, out \in {"ok", "raise"} : SayReturn(t, out)

\* the event loop resumes a task waiting in `async with self._tts_sema` when a
\* slot is free
Resume == \E t \in tasks : Acquire(t)

\* the external calls made inside the guarded body return
Returns ==
    \/ \E t \in tasks, out \in {"text", "raise"} : TranslateReturn(t, out)
    \/ \E t \in tasks, out \in {"blob", "empty"} : TtsReturn(t, out)
    \/ \E t \in tasks, out \in {"ok", "raise"} : SayReturn(t, out)

SpecSlot ==
    Init /\ [][SlotNext]_vars /\ WF_vars(Resume) /\ WF_vars(Returns)

\* the task of chunk c for target u waits for a slot
Waiting(c, u) == \E t \in tasks : t.c = c /\ t.target = u /\ t.pc = "start"

\* C24: the slots in use are exactly the tasks inside the guarded body, so a
\* task gives its slot back on every way out and all MAX_CONCURRENT_TTS slots
\* are free when no task is inside; and, the external calls returning, every
\* task that waits for a slot gets one.
C24_NoSlotLeak ==
    /\ [](/\ sema \in 0..MAX_CONCURRENT_TTS
          /\ sema + Cardinality(Inside) = MAX_CONCURRENT_TTS
          /\ (\A t \in tasks : t.pc \in {"start", "done"}) => sema = MAX_CONCURRENT_TTS)
    /\ \A c \in 1..MaxPlayChunks, u \in Users : Waiting(c, u) ~> ~Waiting(c, u)

C24_Witness ==
    /\ sema = 0
    /\ \E t \in tasks : t.pc = "start"
    /\ \E t \in tasks : t.pc = "say"

\* ------------------------------------------------- handle life-cycle, later
\* handle h holds a Room whose connect() has returned
Connected(h) ==
    handles[h].room = "open" /\ handles[h].start \in {"session", "hooked"}

\* C25 as stated: once stop() has completed, the handle holds no room
\* connection, also when stop() ran while the background start() was still
\* ahead of or inside its awaits.
C25_Original ==
    \A h \in 1..Len(handles) : handles[h].stop = "done" => ~Connected(h)

\* C26: ensure_room_bot is idempotent per room: while a handle is registered
\* for the room no step makes another handle or registers a different one;
\* a new handle is registered at once with its start() scheduled, and no
\* handle's start() is scheduled a second time; the handles of a room that
\* were not stopped are at most one, the registered one.
C26_OneHandlePerRoom ==
    /\ [](\A h \in 1..Len(handles) :
            ~handles[h].closed
                => RoomCode \in DOMAIN _bots /\ _bots[RoomCode] = h)
    /\ [][/\ RoomCode \in DOMAIN _bots
              => /\ Len(handles') = Len(handles)
                 /\ RoomCode \in DOMAIN _bots' => _bots'[RoomCode] = _bots[RoomCode]
          /\ Len(handles') # Len(handles)
              => /\ Len(handles') = Len(handles) + 1
                 /\ handles'[Len(handles')] = NewHandle(RoomCode)
                 /\ RoomCode \in DOMAIN _bots' /\ _bots'[RoomCode] = Len(handles')
          /\ \A h \in 1..Len(handles) :
                handles[h].start # "scheduled" => handles'[h].start # "scheduled"]_vars

C26_Witness ==
    /\ Len(handles) = 1
    /\ RoomCode \in DOMAIN _bots /\ _bots[RoomCode] = 1
    /\ handles[1].start = "hooked" /\ ~handles[1].closed
    /\ HasRoom(RoomCode) /\ rooms[RoomCode].bots = {"en", "fr"}
    /\ \E r \in 1..Len(recs) : recs[r].pc = "raised"

\* C27 as stated: whenever no reconcile task of the room is pending or
\* suspended, room["bots"] is non-empty exactly when _bots holds a handle for
\* the room.
C27_Original ==
    (Reconciled /\ HasRoom(RoomCode))
        => (rooms[RoomCode].bots # {} <=> RoomCode \in DOMAIN _bots)

\* C28 as stated: a reconcile task that finds the room with at least 2
\* languages and a key of room["bots"] that is no member's language ends
\* normally, leaves room["bots"] keyed by exactly the members' languages and
\* leaves the registered handle in place.
C28_Original ==
    [][\A r \in 1..Len(recs) :
          (/\ recs[r].pc = "scheduled" /\ recs'[r].pc # "scheduled"
           /\ HasRoom(RoomCode)
           /\ Cardinality(MemberLangs(rooms[RoomCode].members)) >= 2
           /\ rooms[RoomCode].bots \ MemberLangs(rooms[RoomCode].members) # {})
              => /\ recs'[r].pc = "done"
                 /\ rooms'[RoomCode].bots = MemberLangs(rooms[RoomCode].members)
                 /\ RoomCode \in DOMAIN _bots
                       => RoomCode \in DOMAIN _bots' /\ _bots'[RoomCode] = _bots[RoomCode]]_vars

\* -------------------------------------------------------- buffer scenario
\* one reader fed frames of 0, 4800, 43200 and 48000 bytes, 50 ms or a stall
\* apart
Long == [n |-> min_speech_bytes - FrameBytes, amp |-> 300]

BufNext ==
    \/ TrackSubscribed("u1")
    \/ \E data \in {Speech, Long, Hush, NoData}, gap \in {50, StallMs} :
          /\ Len(chunks) < MaxBufChunks /\ nframes < MaxBufFrames
          /\ ReadFrame("u1", data, sample_rate, gap)
    \/ StreamEnd("u1")

SpecBuf == Init /\ [][BufNext]_vars

\* C29: after every ingest step the reader's buffer holds fewer than
\* min_speech_bytes bytes; a snapshot is what the buffer held before the
\* step plus the step's frame, so it is shorter than min_speech_bytes plus
\* that frame; and every snapshot has at least one byte.
C29_BufferBounded ==
    /\ [](/\ \A s \in Users : BufLen(buffer[s]) < min_speech_bytes
          /\ \A c \in ChunkIds : Chunk(c).bytes >= 1 /\ Chunk(c).pcm # <<>>)
    /\ [][Len(chunks') > Len(chunks)
              => LET new   == chunks'[Len(chunks')]
                     frame == BufLen(stream'[new.speaker]) - BufLen(stream[new.speaker])
                 IN  /\ Len(chunks') = Len(chunks) + 1
                     /\ new.bytes = BufLen(buffer[new.speaker]) + frame
                     /\ new.bytes < min_speech_bytes + frame
                     /\ buffer'[new.speaker] = <<>>]_vars

C29_Witness ==
    /\ \E c \in ChunkIds : Chunk(c).bytes = min_speech_bytes - FrameBytes + BigFrameBytes
    /\ \E c \in ChunkIds : Chunk(c).bytes = FrameBytes
    /\ BufLen(buffer["u1"]) = min_speech_bytes - FrameBytes

\* ------------------------------------------------------ capacity scenario
\* five users of one language and the four endpoints that change a room's
\* member list
CapUsers == {"u1", "u2", "u3", "u4", "u5"}

CapNext ==
    \/ \E u \in CapUsers : create_room(u, TRUE, "en")
    \/ \E u \in CapUsers, c \in {"", RoomCode} : join_room(u, c, "en")
    \/ \E u \in CapUsers : leave_room(u, RoomCode)
    \/ \E u \in CapUsers : livekit_join_token(u, RoomCode, "en")

SpecCap == Init /\ [][CapNext]_vars

\* C30 as stated: no room ever has more than MAX_ROOM_CAPACITY members,
\* whatever the sequence of create_room, join_room, leave_room and
\* livekit_join_token requests.
C30_Original ==
    \A c \in DOMAIN rooms : Len(rooms[c].members) <= MAX_ROOM_CAPACITY

\* ms without the entries of user u
Without(ms, u) == SelectSeq(ms, LAMBDA m : m.user_id # u)

\* C31: a room's member list never holds two entries of one user, whatever
\* the requests; and a step that shortens a member list (leave_room) removes
\* exactly one user's entry and leaves the other entries as they were, in
\* their order.
C31_MembersUnique ==
    /\ [](\A c \in DOMAIN rooms :
            \A i, j \in 1..Len(rooms[c].members) :
                rooms[c].members[i].user_id = rooms[c].members[j].user_id => i = j)
    /\ [][\A c \in DOMAIN rooms :
            Len(rooms'[c].members) < Len(rooms[c].members)
                => \E u \in CapUsers :
                      /\ IsMember(rooms[c].members, u)
                      /\ ~IsMember(rooms'[c].members, u)
                      /\ rooms'[c].members = Without(rooms[c].members, u)
                      /\ Len(rooms'[c].members) = Len(rooms[c].members) - 1]_vars

C31_Witness ==
    /\ HasRoom(RoomCode)
    /\ nreqs = 5 /\ Len(recs) = 4
    /\ Len(rooms[RoomCode].members) = 2
    /\ rooms[RoomCode].members[1].user_id = "u2"
    /\ rooms[RoomCode].members[2].user_id = "u3"

\* the language of user u's entry in ms ("" when u has none)
LangOf(ms, u) ==
    IF IsMember(ms, u)
    THEN ms[CHOOSE i \in 1..Len(ms) : ms[i].user_id = u].language
    ELSE ""

\* C32 as stated: after a successful join_room or livekit_join_token request
\* of user u with language l for the room, u's entry in the room's member
\* list has language l, also when u was a member with another language.
C32_Original ==
    [][\A u \in RoomUsers, l \in RoomLanguages :
          (/\ join_room(u, RoomCode, l) \/ livekit_join_token(u, RoomCode, l)
           /\ recs' # recs)
              => LangOf(rooms'[RoomCode].members, u) = l]_vars

\* ------------------------------------------------------ repeated stop()
\* RoomBotHandle.stop() called on handle h by another caller than
\* stop_room_bot, up to its return or its first await
stop(h) ==
    /\ IF Closed(h)
       THEN UNCHANGED handles
       ELSE handles' = [handles EXCEPT ![h].closed = TRUE,
                                       ![h].stop = "session_aclose"]
    /\ UNCHANGED <<rooms, _bots, recs, nreqs, pipeVars>>

StopLanguages == {"en", "hi"}

StopAgainNext ==
    \/ \E u \in RoomUsers, l \in StopLanguages :
          nreqs < MaxRoomRequests /\ create_room(u, TRUE, l)
    \/ \E u \in RoomUsers, l \in StopLanguages :
          nreqs < MaxRoomRequests /\ join_room(u, RoomCode, l)
    \/ \E u \in RoomUsers :
          nreqs < MaxRoomRequests /\ leave_room(u, RoomCode)
    \/ \E u \in RoomUsers, l \in StopLanguages :
          nreqs < MaxRoomRequests /\ livekit_join_token(u, RoomCode, l)
    \/ \E r \in 1..Len(recs) : ReconcileRun(r)
    \/ \E h \in 1..Len(handles) : stop(h)
    \/ \E h \in 1..Len(handles) : SessionAcloseReturn(h)
    \/ \E h \in 1..Len(handles) : RoomAcloseReturn(h)
    \/ \E h \in 1..Len(handles), out \in {"ok", "raise"} : StarterRun(h, out)
    \/ \E h \in 1..Len(handles), out \in {"ok", "raise"} : ConnectReturn(h, out)
    \/ \E h \in 1..Len(handles), out \in {"ok", "raise"} : SessionStartReturn(h, out)

SpecStopAgain == Init /\ [][StopAgainNext]_vars

\* C33: stop() is idempotent: the session of a handle is closed only by the
\* first stop(), which marks the handle closed before its first await; a
\* stop() on a closed handle, overlapping the first or after it, closes
\* nothing, and a closed handle stays closed.
C33_StopOnce ==
    /\ [](\A h \in 1..Len(handles) :
            handles[h].closed <=> handles[h].stop # "none")
    /\ [][\A h \in 1..Len(handles) :
            /\ handles[h].closed => handles'[h].closed
            /\ (handles'[h].stop = "session_aclose" /\ handles[h].stop # "session_aclose")
                  => handles[h].stop = "none" /\ ~handles[h].closed
            /\ (handles'[h].stop = "room_aclose" /\ handles[h].stop # "room_aclose")
                  => handles[h].stop = "session_aclose"
            /\ handles[h].stop = "done" => handles'[h].stop = "done"]_vars

C33_Witness ==
    /\ Len(handles) = 1
    /\ handles[1].stop = "session_aclose"
    /\ RoomCode \notin DOMAIN _bots
    /\ \E r \in 1..Len(recs) : recs[r].pc = "done"
    /\ \A r \in 1..Len(recs) : recs[r].pc \in {"done", "raised"} /\ recs[r].h = 0
    /\ HasRoom(RoomCode) /\ Len(rooms[RoomCode].members) = 1

\* --------------------------------------------------- sample-rate scenario
\* one reader whose frames report a sample rate of 16000 or none (0)
FrameRates == {0, 16000}

RateNext ==
    \/ TrackSubscribed("u1")
    \/ \E data \in {Speech, Loud50, Hush}, rate \in FrameRates :
          /\ Len(chunks) < MaxRateChunks /\ nframes < MaxRateFrames
          /\ ReadFrame("u1", data, rate, StallMs)
    \/ StreamEnd("u1")
    \/ \E c \in 1..Len(chunks) : HandleStart(c)

SpecRate == Init /\ [][RateNext]_vars

\* C34: a frame without a sample rate is processed with the default of
\* 48000: the rate handed to dispatch with a snapshot is the last frame's own
\* rate or the default, never 0, and it is the rate the energy window of that
\* step was cut with (the window has bytes, and the step found the buffer
\* voiced exactly when that window is above the threshold).
C34_RateNeverZero ==
    \A c \in ChunkIds :
        /\ Chunk(c).rate \in (FrameRates \ {0}) \cup {sample_rate}
        /\ Chunk(c).rate > 0
        /\ WindowBytes(Chunk(c).rate) > 0
        /\ Chunk(c).silentFor = 0 <=> RmsAboveThreshold(Chunk(c).pcm, Chunk(c).rate)

C34_Witness ==
    /\ \E c \in ChunkIds :
          Chunk(c).rate = sample_rate /\ Chunk(c).pc = "stt" /\ Chunk(c).trigger = "size"
    /\ \E c \in ChunkIds :
          Chunk(c).rate = sample_rate /\ Chunk(c).trigger = "silence"
    /\ \E c \in ChunkIds : Chunk(c).rate = 16000

\* ------------------------------------------------- frame slicing scenario
\* (sample_rate, channels, frame_ms) of a call, giving frames of 2, 4 and 6
\* bytes
FrameParams == {<<1000, 1, 1>>, <<1500, 1, 1>>, <<1000, 2, 1>>, <<1500, 1, 2>>}
ByteValues == {0, 7}

RECURSIVE SeqsUpTo(_)
\* the byte strings of at most n bytes
SeqsUpTo(n) ==
    IF n = 0 THEN {<<>>}
    ELSE LET shorter == SeqsUpTo(n - 1)
         IN  shorter \cup {Append(q, v) : q \in {x \in shorter : Len(x) = n - 1},
                                          v \in ByteValues}

\* b"\x00" * k
Zeros(k) == [i \in 1..k |-> 0]

\* mutant: a short last chunk is yielded as it is
Padded_None(chunk, b) == chunk

\* chunk + b"\x00" * (bytes_per_chunk - len(chunk)) when chunk is short
Padded(chunk, b) == IF Len(chunk) < b THEN chunk \o Zeros(b - Len(chunk)) ELSE chunk

\* the generator has decoded audio_bytes into raw and computed its frame size
FramesInit ==
    /\ reader = [s \in Users |-> "none"]
    /\ buffer = [s \in Users |-> <<>>]
    /\ sinceVoice = [s \in Users |-> 0]
    /\ nframes = 0
    /\ chunks = <<>>
    /\ tasks = {}
    /\ user_prefs = <<>>
    /\ sema = MAX_CONCURRENT_TTS
    /\ nprefs = 0
    /\ stream = [s \in Users |-> <<>>]
    /\ rooms = <<>>
    /\ _bots = <<>>
    /\ handles = <<>>
    /\ recs = <<>>
    /\ nreqs = 0
    /\ raw \in SeqsUpTo(MaxRawBytes)
    /\ \E q \in FrameParams : bytes_per_chunk = BytesPerChunk(q[1], q[2], q[3])
    /\ idx = 0
    /\ frames = <<>>

\* one turn of `while idx < total`: the next chunk is cut, padded and yielded
YieldFrame ==
    /\ idx < Len(raw)
    /\ frames' = Append(frames,
           Padded(SubSeq(raw, idx + 1, Min(idx + bytes_per_chunk, Len(raw))),
                  bytes_per_chunk))
    /\ idx' = idx + bytes_per_chunk
    /\ UNCHANGED <<raw, bytes_per_chunk, reader, buffer, sinceVoice, nframes, chunks,
                   tasks, user_prefs, sema, nprefs, stream, rooms, _bots, handles,
                   recs, nreqs>>

FramesNext == YieldFrame

SpecFrames == FramesInit /\ [][FramesNext]_vars

RECURSIVE Flat(_)
\* the frames one after the other
Flat(fs) == IF fs = <<>> THEN <<>> ELSE Head(fs) \o Flat(Tail(fs))

\* the generator has left its loop
Exhausted == idx >= Len(raw)

\* C35: for decoded PCM of n bytes and a frame size of b bytes the generator
\* yields frames of exactly b bytes, in the order of the PCM; when it ends it
\* has yielded ceil(n / b) frames (none for n = 0), every frame but the last
\* is the PCM's own slice, the last is the rest followed by zeros only, and
\* the frames in a row cut to n bytes are the PCM.  The frame size of the
\* agent's calls (44100 Hz, mono, FRAME_MS) is 1764 bytes.
C35_FrameSlicing ==
    LET n == Len(raw)
        b == bytes_per_chunk
        k == Len(frames)
    IN  /\ b > 0 /\ BytesPerChunk(44100, 1, FRAME_MS) = 1764
        /\ idx = k * b
        /\ \A i \in 1..k : Len(frames[i]) = b
        /\ \A i \in 1..k :
              i * b <= n => frames[i] = SubSeq(raw, (i - 1) * b + 1, i * b)
        /\ Exhausted
              => /\ k = (n + b - 1) \div b
                 /\ n = 0 => frames = <<>>
                 /\ SubSeq(Flat(frames), 1, n) = raw
                 /\ SubSeq(Flat(frames), n + 1, k * b) = Zeros(k * b - n)
                 /\ k * b - n < b

C35_Witness ==
    /\ Exhausted
    /\ Len(raw) = 5 /\ bytes_per_chunk = 2 /\ Len(frames) = 3
    /\ raw[5] = 7 /\ frames[3] = <<7, 0>>

====
